---- MODULE Spec2Model ----
(***************************************************************************)
(* Model of app.py, a Streamlit script that fits a log-normal distribution *)
(* to two of the three fixed percentiles (50 %, 80 %, 95 %) and derives    *)
(* the value of the third.                                                 *)
(*                                                                         *)
(* A Streamlit script is re-executed from its first line on every user     *)
(* interaction.  The state is the widget state kept by Streamlit between   *)
(* runs (the multiselect and the two number inputs) together with what the *)
(* last run computed and rendered.  Every action is one interaction        *)
(* followed by the complete re-execution of the script.                    *)
(*                                                                         *)
(* Number representation.  TLA+ has no reals, so                           *)
(*   - a value x is an integer count of 1/Unidad (1e-6);                   *)
(*   - a logarithm or a z-score is an integer count of 1/EscalaLog (1e-3); *)
(*   - np.log and np.exp are computed in fixed point, with rounding, so    *)
(*     neither is the inverse of the other exactly;                        *)
(*   - + - * / are exact: sigma and mu are kept as fractions n/d over the  *)
(*     common denominator d = z2 - z1.  The relative rounding error 2^-53  *)
(*     of the float operations is not modelled.                            *)
(***************************************************************************)
EXTENDS Integers, Sequences, FiniteSets, TLC

VARIABLES
    seleccionados,      \* return value of st.multiselect: labels in selection order
    widget,             \* Streamlit's state of the rendered st.number_input widgets
    valores,            \* the script's dict `valores` as last built (line 62-68)
    fase,               \* where the last run ended: "aviso" | "error" | "listo"
    mensajes,           \* st.warning / st.error / st.success notices of the last run
    ajuste,             \* <<>> or <<[mu, sigma]>>: the fitted parameters shown
    etiqueta_faltante,  \* <<>> or <<label>>
    x_falt,             \* <<>> or <<value>>
    rango,              \* <<>> or <<[xmin, xmax, n]>>: np.linspace arguments
    marcas,             \* the ax.axvline markers, in drawing order
    tabla               \* the rows of the summary table, top to bottom

vars == <<seleccionados, widget, valores, fase, mensajes, ajuste,
          etiqueta_faltante, x_falt, rango, marcas, tabla>>

-----------------------------------------------------------------------------
(* Bounds of the input grid and the number representation.                 *)

MaxFino == 2
MaxGrueso == 4

\* Units per 1.0 of a value, and of a logarithm or z-score.
Unidad == 10^6
EscalaLog == 10^3
\* Internal scale of the series of Ln and Exp.
Bin == 2^14
\* ln 2 and 6 ln 10 (the logarithm of Unidad), in units of 1e-6.
Ln2Micro == 693147
Ln10x6Micro == 13815511
\* Largest value np.exp returns in this representation.
XMax == 2^30
\* What a float division by zero yields (nan or +-inf), and Python's None.
NoFinito == -1
Nulo == -2

PasoFino == Unidad \div 10000
PasoGrueso == 50 * Unidad

\* The values a user types into a number input: 0 (the default, allowed by
\* min_value=0.0), a few values below 1e-3 and a few ordinary ones.
Entradas ==
    {0} \cup {k * PasoFino : k \in 1..MaxFino}
        \cup {k * PasoGrueso : k \in 1..MaxGrueso}

-----------------------------------------------------------------------------
(* Arithmetic.                                                             *)

\* a / b rounded to the nearest integer, for b > 0.
RoundDiv(a, b) == (a + b \div 2) \div b

Sgn(a) == IF a > 0 THEN 1 ELSE IF a < 0 THEN 0 - 1 ELSE 0

Range(s) == {s[i] : i \in 1..Len(s)}

RECURSIVE Log2Floor(_)
Log2Floor(v) == IF v < 2 THEN 0 ELSE 1 + Log2Floor(v \div 2)

RECURSIVE AtanhSerie(_, _, _)
AtanhSerie(pot, t2, n) ==
    IF pot = 0 \/ n > 15 THEN 0
    ELSE RoundDiv(pot, n) + AtanhSerie(RoundDiv(pot * t2, Bin), t2, n + 2)

\* np.log(x) for x > 0: x = m * 2^k with 1 <= m < 2,
\* ln x = k ln 2 + 2 atanh((m - 1) / (m + 1)).
Ln(v) ==
    LET k == Log2Floor(v)
        m == IF k >= 14 THEN v \div (2^(k - 14)) ELSE v * 2^(14 - k)
        t == RoundDiv((m - Bin) * Bin, m + Bin)
        lnm == 2 * AtanhSerie(t, RoundDiv(t * t, Bin), 1)
        micro == k * Ln2Micro + RoundDiv(lnm * 15625, 256) - Ln10x6Micro
    IN  RoundDiv(micro, Unidad \div EscalaLog)

RECURSIVE ExpSerie(_, _, _)
ExpSerie(term, r, n) ==
    IF term = 0 THEN 0
    ELSE term + ExpSerie(RoundDiv(term * r, Bin * n), r, n + 1)

\* np.exp(y): e^y = 2^k e^r with 0 <= r < ln 2.  Like the float it models the
\* result has a largest value (XMax) and underflows to 0.
Exp(y) ==
    LET w == y * (Unidad \div EscalaLog) + Ln10x6Micro
        k == w \div Ln2Micro
        r == RoundDiv((w - k * Ln2Micro) * 256, 15625)
        e == ExpSerie(Bin, r, 1)
    IN  IF k > 29 THEN XMax
        ELSE IF k >= 14 THEN e * 2^(k - 14)
        ELSE IF k >= 0 - 2 THEN RoundDiv(e, 2^(14 - k))
        ELSE 0

-----------------------------------------------------------------------------
(* The fixed data of the script.                                           *)

\* Mutant: the dict written with its keys in another order.
EtiquetasOtroOrden == <<"Serio  (80 %)", "Tipico (50 %)", "Extremo (95 %)">>

\* The keys of the dict `percentiles`, in insertion order, which is the order
\* Python iterates them in.
Etiquetas == <<"Tipico (50 %)", "Serio  (80 %)", "Extremo (95 %)">>

\* percentiles[etq], as a percentage.
percentiles ==
    [e \in Range(Etiquetas) |->
        CASE e = "Tipico (50 %)" -> 50
          [] e = "Serio  (80 %)" -> 80
          [] e = "Extremo (95 %)" -> 95]

\* stats.norm.ppf(p) for the three probabilities of `percentiles`
\* (0, 0.8416, 1.6449), in units of 1/EscalaLog.
Ppf(p) ==
    CASE p = 50 -> 0
      [] p = 80 -> 842
      [] p = 95 -> 1645

\* np.linspace(xmin, xmax, 500): the number of samples.
NumMuestras == 500

\* The value a number input shows before the user types one: min_value=0.0.
ValorInicial == 0

\* 1e-3, the floor of xmin.
Milesima == Unidad \div 1000

\* f"{x:.5f}" and f"{x:.2f}": the decimal shown, in units of 1e-5 and 1e-2.
Fmt5(x) == IF x < 0 THEN x ELSE RoundDiv(x, Unidad \div 100000)
Fmt2(x) == IF x < 0 THEN x ELSE RoundDiv(x, Unidad \div 100)

-----------------------------------------------------------------------------
(* The numeric core, lines 83-92.                                          *)

\* Mutant: the numerator's operands exchanged.
SigmaInvertida(x1, x2, z1, z2) == [n |-> Ln(x1) - Ln(x2), d |-> z2 - z1]

\* sigma = (np.log(x2) - np.log(x1)) / (z2 - z1), as the fraction n/d.
Sigma(x1, x2, z1, z2) == [n |-> Ln(x2) - Ln(x1), d |-> z2 - z1]

\* Mutant: sigma * z1 added instead of subtracted.
MuConSuma(x1, z1, sigma) ==
    [n |-> Ln(x1) * sigma.d + sigma.n * z1, d |-> sigma.d]

\* mu = np.log(x1) - sigma * z1, over the same denominator.
Mu(x1, z1, sigma) == [n |-> Ln(x1) * sigma.d - sigma.n * z1, d |-> sigma.d]

\* mu + sigma * z, rounded to the resolution of a logarithm.  A zero
\* denominator (0/0 or x/0 in numpy: nan or inf, no exception) has no value.
Exponente(mu, sigma, z) ==
    LET n == mu.n + sigma.n * z
    IN  IF sigma.d > 0 THEN RoundDiv(n, sigma.d) ELSE RoundDiv(0 - n, 0 - sigma.d)

\* x_falt = np.exp(mu + sigma * z_falt)
Cuantil(mu, sigma, z) ==
    IF sigma.d = 0 THEN NoFinito ELSE Exp(Exponente(mu, sigma, z))

\* Mutant: only the first selected label is excluded.
FaltanteSoloPrimero(sel) ==
    LET resto == SelectSeq(Etiquetas, LAMBDA e : e # sel[1])
    IN  resto[1]

\* [e for e in percentiles.keys() if e not in seleccionados][0]
Faltante(sel) ==
    LET resto == SelectSeq(Etiquetas, LAMBDA e : e \notin Range(sel))
    IN  resto[1]

\* Python's min and max of a list: the first element, replaced by a later one
\* only when the comparison is true, which it never is for nan.
RECURSIVE PyMin(_)
PyMin(xs) ==
    IF Len(xs) = 1 THEN xs[1]
    ELSE LET m == PyMin(SubSeq(xs, 1, Len(xs) - 1))
             x == xs[Len(xs)]
         IN  IF x # NoFinito /\ m # NoFinito /\ x < m THEN x ELSE m

RECURSIVE PyMax(_)
PyMax(xs) ==
    IF Len(xs) = 1 THEN xs[1]
    ELSE LET m == PyMax(SubSeq(xs, 1, Len(xs) - 1))
             x == xs[Len(xs)]
         IN  IF x # NoFinito /\ m # NoFinito /\ x > m THEN x ELSE m

\* xmin = max(min(todos_x) * 0.5, 1e-3);  xmax = max(todos_x) * 1.5
Xmin(todos_x) ==
    LET a == PyMin(todos_x) \div 2 IN IF Milesima > a THEN Milesima ELSE a
Xmax(todos_x) == LET m == PyMax(todos_x) IN m + m \div 2

-----------------------------------------------------------------------------
(* One execution of the script.                                            *)

\* An empty dict.
Vacio == [e \in {} |-> 0]

\* Nothing was rendered below the point where the run stopped.
SinResultados ==
    [ajuste |-> <<>>, etiqueta_faltante |-> <<>>, x_falt |-> <<>>,
     rango |-> <<>>, marcas |-> <<>>, tabla |-> <<>>]

\* Mutant: the dict is kept from one run to the next.
ValoresRetenido(previo) == previo

\* Line 62, `valores = {}`: the dict starts empty in every run, whatever an
\* earlier run left in it.
ValoresNuevo(previo) == Vacio

\* Lines 63-68: one number input per selected label.  A number input returns
\* its widget state, or min_value when it is rendered for the first time.
LeerEntradas(sel, w) ==
    [e \in Range(sel) |-> IF e \in DOMAIN w THEN w[e] ELSE ValorInicial]

LlenarValores(base, entradas) ==
    [e \in DOMAIN base \cup DOMAIN entradas |->
        IF e \in DOMAIN entradas THEN entradas[e] ELSE base[e]]

\* Mutant: at least two selections are enough.
SeleccionAlMenosDos(sel) == Len(sel) >= 2

\* Line 56: the script goes on only with exactly two selections.
SeleccionValida(sel) == Len(sel) = 2

\* Mutant: only negative values are refused.
ValoresInvalidosSinCero(x1, x2) == x1 < 0 \/ x2 < 0

\* Line 77: both values must be positive.
ValoresInvalidos(x1, x2) == x1 <= 0 \/ x2 <= 0

\* Lines 147-153: one marker per key of `percentiles`, in the dict's order.
Marcas(vals, xf) ==
    [i \in 1..Len(Etiquetas) |->
        LET etq == Etiquetas[i]
            x_val == IF etq \in DOMAIN vals THEN vals[etq] ELSE xf
        IN  [etq |-> etq, prob |-> percentiles[etq], x |-> x_val,
             texto |-> Fmt2(x_val)]]

\* valores.get(etq, x_falt if etiqueta_faltante == etq else None)
Celda(vals, falt, xf, etq) ==
    IF etq \in DOMAIN vals THEN vals[etq]
    ELSE IF falt = etq THEN xf ELSE Nulo

\* Lines 170-176: the three rows of the summary table, as written.
Tabla(vals, falt, xf) ==
    << [etq |-> "Tipico (50 %)", prob |-> 50,
        valor |-> Celda(vals, falt, xf, "Tipico (50 %)"),
        texto |-> Fmt5(Celda(vals, falt, xf, "Tipico (50 %)"))],
       [etq |-> "Serio  (80 %)", prob |-> 80,
        valor |-> Celda(vals, falt, xf, "Serio  (80 %)"),
        texto |-> Fmt5(Celda(vals, falt, xf, "Serio  (80 %)"))],
       [etq |-> "Extremo (95 %)", prob |-> 95,
        valor |-> Celda(vals, falt, xf, "Extremo (95 %)"),
        texto |-> Fmt5(Celda(vals, falt, xf, "Extremo (95 %)"))] >>

\* Lines 71-178, reached with two selections and both values positive.  The
\* test of line 71 is always true: a number input never returns None here.
Calcular(sel, vals) ==
    LET etq1 == sel[1]
        etq2 == sel[2]
        x1 == vals[etq1]
        x2 == vals[etq2]
        z1 == Ppf(percentiles[etq1])
        z2 == Ppf(percentiles[etq2])
        sigma == Sigma(x1, x2, z1, z2)
        mu == Mu(x1, z1, sigma)
        falt == Faltante(sel)
        xf == Cuantil(mu, sigma, Ppf(percentiles[falt]))
        todos_x == <<x1, x2, xf>>
    IN  [ajuste |-> << [mu |-> mu, sigma |-> sigma] >>,
         etiqueta_faltante |-> <<falt>>,
         x_falt |-> <<xf>>,
         rango |-> << [xmin |-> Xmin(todos_x), xmax |-> Xmax(todos_x),
                       n |-> NumMuestras] >>,
         marcas |-> Marcas(vals, xf),
         tabla |-> Tabla(vals, falt, xf)]

\* The whole script: `sel` and `w` are the widget state it reads, `previo` is
\* the dict `valores` an earlier run left behind.
Script(sel, w, previo) ==
    IF ~SeleccionValida(sel)
    THEN \* lines 56-58: st.warning, st.stop; no number input is rendered
         [widget |-> Vacio, valores |-> previo, fase |-> "aviso",
          mensajes |-> <<"warning">>, res |-> SinResultados]
    ELSE LET entradas == LeerEntradas(sel, w)
             vals == LlenarValores(ValoresNuevo(previo), entradas)
         IN  IF ValoresInvalidos(vals[sel[1]], vals[sel[2]])
             THEN \* lines 77-79: st.error, st.stop
                  [widget |-> entradas, valores |-> vals, fase |-> "error",
                   mensajes |-> <<"error">>, res |-> SinResultados]
             ELSE [widget |-> entradas, valores |-> vals, fase |-> "listo",
                   mensajes |-> <<"success">>, res |-> Calcular(sel, vals)]

Ejecutar(sel, w) ==
    LET r == Script(sel, w, valores)
    IN  /\ seleccionados' = sel
        /\ widget' = r.widget
        /\ valores' = r.valores
        /\ fase' = r.fase
        /\ mensajes' = r.mensajes
        /\ ajuste' = r.res.ajuste
        /\ etiqueta_faltante' = r.res.etiqueta_faltante
        /\ x_falt' = r.res.x_falt
        /\ rango' = r.res.rango
        /\ marcas' = r.res.marcas
        /\ tabla' = r.res.tabla

-----------------------------------------------------------------------------
(* The user's interactions; each one re-runs the script.                   *)

\* Mutant: a label may be selected again.
PuedeSeleccionarRepetido(sel, e) == Len(sel) < Len(Etiquetas)

\* st.multiselect offers only the options not selected yet.
PuedeSeleccionar(sel, e) == e \notin Range(sel)

Seleccionar(e) ==
    /\ PuedeSeleccionar(seleccionados, e)
    /\ Ejecutar(Append(seleccionados, e), widget)

Quitar(e) ==
    /\ e \in Range(seleccionados)
    /\ Ejecutar(SelectSeq(seleccionados, LAMBDA a : a # e), widget)

\* Typing a value into one of the rendered number inputs.
IngresarValor(e, v) ==
    /\ e \in DOMAIN widget
    /\ v # widget[e]
    /\ Ejecutar(seleccionados, [widget EXCEPT ![e] = v])

\* Any other interaction (the expander, the rerun key): same widget state.
Reejecutar == Ejecutar(seleccionados, widget)

Init ==
    LET r == Script(<<>>, Vacio, Vacio)
    IN  /\ seleccionados = <<>>
        /\ widget = r.widget
        /\ valores = r.valores
        /\ fase = r.fase
        /\ mensajes = r.mensajes
        /\ ajuste = r.res.ajuste
        /\ etiqueta_faltante = r.res.etiqueta_faltante
        /\ x_falt = r.res.x_falt
        /\ rango = r.res.rango
        /\ marcas = r.res.marcas
        /\ tabla = r.res.tabla

Next ==
    \/ \E e \in Range(Etiquetas) : Seleccionar(e)
    \/ \E e \in Range(Etiquetas) : Quitar(e)
    \/ \E e \in Range(Etiquetas), v \in Entradas : IngresarValor(e, v)
    \/ Reejecutar

Spec == Init /\ [][Next]_vars

-----------------------------------------------------------------------------
(* Properties.                                                             *)

Listo == fase = "listo"

SinNada ==
    /\ ajuste = <<>> /\ etiqueta_faltante = <<>> /\ x_falt = <<>>
    /\ rango = <<>> /\ marcas = <<>> /\ tabla = <<>>

\* Sign of the fraction sigma.
SignoSigma == Sgn(ajuste[1].sigma.n) * Sgn(ajuste[1].sigma.d)

\* The two observations of the last run, in selection order.
P1 == percentiles[seleccionados[1]]
P2 == percentiles[seleccionados[2]]
X1 == widget[seleccionados[1]]
X2 == widget[seleccionados[2]]

\* C1: with two percentiles selected, a value <= 0 (0 included) ends the run
\* in the error outcome, and mu, sigma, the missing percentile, the plot and
\* the table are not produced.
C1_ValorNoPositivoTerminaEnError ==
    (SeleccionValida(seleccionados) /\ (X1 <= 0 \/ X2 <= 0))
        => (fase = "error" /\ mensajes = <<"error">> /\ SinNada)

C1_Witness ==
    /\ SeleccionValida(seleccionados) /\ X1 > 0 /\ X2 = 0
    /\ fase = "error"

\* C2: the division by z2 - z1 is reached only with two distinct percentile
\* labels, and z2 - z1 is not 0 there.
C2_DivisionSoloConEspecsDistintas ==
    Listo => /\ seleccionados[1] # seleccionados[2]
             /\ P1 # P2
             /\ ajuste[1].sigma.d # 0

C2_Witness == Listo /\ ajuste[1].sigma.d < 0

C4_AvisoDeAjusteInconsistente ==
    (Listo /\ SignoSigma <= 0)
        => /\ "warning" \in Range(mensajes)
           /\ ajuste # <<>> /\ x_falt # <<>>

\* C5: the missing label is the one label not selected; markers and table hold
\* each of the three labels once, the two selected ones with the values the
\* user supplied and the missing one with exp(mu + sigma * z_missing).
C5_TripleResuelto ==
    Listo =>
        LET falt == etiqueta_faltante[1]
            sel == Range(seleccionados)
            derivado == Cuantil(ajuste[1].mu, ajuste[1].sigma,
                                Ppf(percentiles[falt]))
            Bien(fila, x) ==
                /\ fila.etq \in sel => x = widget[fila.etq]
                /\ fila.etq = falt => x = derivado
        IN  /\ falt \notin sel
            /\ Range(Etiquetas) = sel \cup {falt}
            /\ x_falt[1] = derivado
            /\ Len(marcas) = 3 /\ Len(tabla) = 3
            /\ {marcas[i].etq : i \in 1..3} = Range(Etiquetas)
            /\ {tabla[i].etq : i \in 1..3} = Range(Etiquetas)
            /\ \A i \in 1..3 : Bien(marcas[i], marcas[i].x)
            /\ \A i \in 1..3 : Bien(tabla[i], tabla[i].valor)

C5_Witness ==
    /\ Listo /\ etiqueta_faltante = <<"Tipico (50 %)">>
    /\ marcas[1].x = x_falt[1] /\ x_falt[1] > 0

\* C6: markers and table rows are emitted in order of increasing probability,
\* 50 then 80 then 95, whatever the selection order and the missing label.
C6_OrdenCreciente ==
    Listo => /\ [i \in 1..Len(marcas) |-> marcas[i].prob] = <<50, 80, 95>>
             /\ [i \in 1..Len(tabla) |-> tabla[i].prob] = <<50, 80, 95>>
             /\ \A i \in 1..3 : marcas[i].prob = percentiles[marcas[i].etq]
             /\ \A i \in 1..3 : tabla[i].prob = percentiles[tabla[i].etq]

C6_Witness ==
    Listo /\ seleccionados = <<"Extremo (95 %)", "Tipico (50 %)">>

\* C7: the fitted parameters reproduce both input points,
\* ln(x_i) = mu + sigma * z_i for i = 1, 2 (in exact arithmetic on the
\* logarithms: both sides over the denominator z2 - z1).
C7_AjusteReproduceLasEntradas ==
    Listo =>
        LET mu == ajuste[1].mu
            sigma == ajuste[1].sigma
        IN  /\ mu.d = sigma.d
            /\ mu.n + sigma.n * Ppf(P1) = Ln(X1) * sigma.d
            /\ mu.n + sigma.n * Ppf(P2) = Ln(X2) * sigma.d

C7_Witness ==
    Listo /\ Ppf(P1) # 0 /\ ajuste[1].sigma.n # 0 /\ ajuste[1].mu.n # 0

\* What a run renders.
Salida ==
    [fase |-> fase, mensajes |-> mensajes, ajuste |-> ajuste,
     etiqueta_faltante |-> etiqueta_faltante, x_falt |-> x_falt,
     rango |-> rango, marcas |-> marcas, tabla |-> tabla]

SalidaDe(r) ==
    [fase |-> r.fase, mensajes |-> r.mensajes, ajuste |-> r.res.ajuste,
     etiqueta_faltante |-> r.res.etiqueta_faltante, x_falt |-> r.res.x_falt,
     rango |-> r.res.rango, marcas |-> r.res.marcas, tabla |-> r.res.tabla]

\* C8: what a run renders is what a first run of a fresh session renders from
\* the same selections and values: nothing an earlier run left behind
\* influences it, so two runs with the same inputs render the same.
C8_SinEstadoRetenido ==
    Salida = SalidaDe(Script(seleccionados, widget, Vacio))

\* A run that stopped early after an earlier run had built `valores`.
C8_Witness ==
    /\ fase = "aviso"
    /\ \E e \in DOMAIN valores : valores[e] > 0

\* C9: with 0, 1 or 3 percentiles selected the run shows the warning and
\* stops: no number input is rendered and nothing is computed.
C9_SoloConDosSeleccionados ==
    /\ Len(seleccionados) # 2
         => (fase = "aviso" /\ mensajes = <<"warning">>
             /\ widget = Vacio /\ SinNada)
    /\ ~SinNada => Len(seleccionados) = 2

C9_Witness == Len(seleccionados) = 3 /\ fase = "aviso"

\* C10: for valid input the sampled range satisfies 0 < xmin < xmax and
\* contains the three resolved values.
C10_RangoContieneLosTresValores ==
    Listo =>
        LET r == rango[1]
            todos == <<X1, X2, x_falt[1]>>
        IN  /\ 0 < r.xmin /\ r.xmin < r.xmax
            /\ r.xmin <= PyMin(todos) /\ PyMax(todos) <= r.xmax

====
